---- MODULE Spec2Model ----
(***************************************************************************)
(* Linear energy model of conceptual DFT (chemtools/conceptual/linear.py): *)
(* LinearGlobalTool (piece-wise linear energy E(N)) and LinearLocalTool    *)
(* (piece-wise linear density, Fukui function and softness).               *)
(*                                                                         *)
(* Numbers.  Every Python number is held as an integer count of quarters:  *)
(* the number x is the integer 4*x.  The inputs that are enumerated are    *)
(* multiples of one half, or whole numbers where a second product is taken *)
(* of them, so that every product the code forms is a whole count of       *)
(* quarters and Mul is exact, as IEEE double arithmetic is on these        *)
(* values.                                                                 *)
(* None is the empty tuple <<>>; an optional number x is <<x>>.            *)
(* A mapping (dict) is a function from its key set to its values.          *)
(* A field (numpy array) is a function from Grid to numbers.               *)
(***************************************************************************)
EXTENDS Integers, Sequences, FiniteSets, TLC

VARIABLES
    kind,          \* "none" | "global" | "local": the instance that exists
    dict_energy,   \* LinearGlobalTool.dict_energy
    n0,            \* self._n0 (both classes)
    n_max,         \* self._n_max
    params,        \* self._params = [a, b, a', b']
    ip,            \* self._ip
    ea,            \* self._ea
    dict_density,  \* the mapping LinearLocalTool was constructed from
    dens_m,        \* self._dens_m
    dens_0,        \* self._dens_0 (density_zero)
    dens_p,        \* self._dens_p
    ff_plus,       \* self._ff_plus
    ff_minus,      \* self._ff_minus
    ff_zero,       \* self._ff_zero
    call,          \* the last operation called and its arguments
    result,        \* how it ended: returned value or raised error, and the log
    alias          \* the object the returned value is: "fresh" or a stored one

vars == <<kind, dict_energy, n0, n_max, params, ip, ea, dict_density, dens_m,
          dens_0, dens_p, ff_plus, ff_minus, ff_zero, call, result, alias>>

globalVars == <<dict_energy, n_max, params, ip, ea>>
localVars == <<dict_density, dens_m, dens_0, dens_p, ff_plus, ff_minus, ff_zero>>

----------------------------------------------------------------------------
(* Bounds of the enumerated inputs. *)

\* electron counts queried: -1, 0, 1/2, ..., MaxElecH/2; the keys of the input
\* mappings: -1/2, 0, 1/2, ..., (MaxElecH - 1)/2
MaxElecH == 6
\* energies: -MaxEnergyH/2, ..., -1/2, 0
MaxEnergyH == 1
\* density values at a grid point: 0, ..., MaxDens
MaxDens == 1
\* derivative orders: -1, 0, ..., MaxOrder, and 3/2
MaxOrder == 2
\* global softness values: 1, ..., MaxSoft
MaxSoft == 2

----------------------------------------------------------------------------
(* Numbers *)

None == <<>>
Some(x) == <<x>>

\* the whole number i
Num(i) == 4 * i
\* the number i/2
Half(i) == 2 * i

\* Python's x * y on floats
Mul(x, y) == (x * y) \div 4

\* isinstance(x, int) for the numbers enumerated: whole numbers are given as
\* Python ints, the others as floats
IsInt(x) == x % 4 = 0

\* Python 2 ordering of a number or None against a number: None sorts below
\* every number
PyLe(a, b) ==
    IF a = None THEN TRUE
    ELSE IF b = None THEN FALSE
    ELSE a[1] <= b[1]

\* not lo <= x <= hi, x a number or None
OutOfRange(lo, x, hi) == ~(PyLe(Some(lo), x) /\ PyLe(x, Some(hi)))

----------------------------------------------------------------------------
(* Mappings *)

RECURSIVE SortedSeq(_)
SortedSeq(S) ==
    IF S = {} THEN <<>>
    ELSE LET m == CHOOSE x \in S : \A y \in S : x <= y
         IN  <<m>> \o SortedSeq(S \ {m})

\* sorted(d.keys())
SortedKeys(d) == SortedSeq(DOMAIN d)

\* values of d in the order of its sorted keys
SortedValues(d) == [i \in 1..Len(SortedKeys(d)) |-> d[SortedKeys(d)[i]]]

Keys == {Half(j) : j \in -1..(MaxElecH - 1)}
KeySets == {K \in SUBSET Keys : Cardinality(K) \in 2..4}
Consecutive(K) == \E k \in K : K = {k, k + Num(1), k + Num(2)}

EnergyValues == {Half(-j) : j \in 0..MaxEnergyH}

\* the mapping {4: -14.0, 5: -15.0, 6: -15.5} of the documentation
Scenario1 == (Num(4) :> Half(-28)) @@ (Num(5) :> Half(-30)) @@ (Num(6) :> Half(-31))

\* the mapping {1: 0.0, 3: 1.0} of the documentation
Scenario2 == (Num(1) :> Num(0)) @@ (Num(3) :> Num(1))

\* energy mappings: every assignment of energies to three consecutive keys, and
\* one assignment to every other key set
EnergyDicts ==
    UNION {[K -> EnergyValues] : K \in {K \in KeySets : Consecutive(K)}}
    \cup {[k \in K |-> Num(0)] : K \in {K \in KeySets : ~Consecutive(K)}}
    \cup {Scenario1, Scenario2}

\* the electron counts queried, 7.5 of the documentation among them
ElecValues == {Num(-1)} \cup {Half(j) : j \in 0..MaxElecH} \cup {Half(15)}
ElecArgs == {None} \cup {Some(x) : x \in ElecValues}

OrderArgs == {Num(j) : j \in -1..MaxOrder} \cup {Half(3)}

SoftnessArgs == {Num(j) : j \in 1..MaxSoft}

\* the grid points of a field
Grid == {1, 2}
FieldValues == {Num(i) : i \in 0..MaxDens}
\* the fields given as densities: v at the first point, MaxDens - v at the second
Fields == {[r \in Grid |-> IF r = 1 THEN v ELSE Num(MaxDens) - v] : v \in FieldValues}
ZeroField == [r \in Grid |-> Num(0)]

\* density mappings: every assignment of fields to three consecutive keys, and
\* one assignment to every other key set
DensityDicts ==
    UNION {[K -> Fields] : K \in {K \in KeySets : Consecutive(K)}}
    \cup {[k \in K |-> ZeroField] : K \in {K \in KeySets : ~Consecutive(K)}}

\* the value an in-place write of the caller stores at every point of a field
FillValue == Num(MaxDens + 1)

----------------------------------------------------------------------------
(* Results of a call *)

Return(v, w) == [outcome |-> "return", value |-> v, warned |-> w]
Raise(e, w) == [outcome |-> "raise", value |-> e, warned |-> w]

----------------------------------------------------------------------------
(* LinearGlobalTool *)

\* chemtools.conceptual.utils.check_dict_energy
CheckDictEnergy(d) ==
    LET keys == SortedKeys(d) IN
    IF Cardinality(DOMAIN d) # 3
    THEN [ok |-> FALSE]
    ELSE IF ~(keys[2] = keys[1] + Num(1) /\ keys[3] = keys[2] + Num(1))
    THEN [ok |-> FALSE]
    ELSE [ok |-> TRUE, n_ref |-> keys[2],
          energy_m |-> d[keys[1]], energy_0 |-> d[keys[2]], energy_p |-> d[keys[3]]]

\* self._params as computed by __init__
GlobalParams(n_ref, energy_m, energy_0, energy_p) ==
    LET param_b == energy_0 - energy_m
        param_a == energy_0 - Mul(n_ref, param_b)
        param_b_prime == energy_p - energy_0
        param_a_prime == energy_0 - Mul(n_ref, param_b_prime)
    IN  <<param_a, param_b, param_a_prime, param_b_prime>>

\* GlobalNMax with the energies compared the other way round
GlobalNMaxReversed(n_ref, energy_0, energy_p) ==
    IF energy_0 > energy_p THEN Some(n_ref) ELSE None

\* n_max as computed by __init__
GlobalNMax(n_ref, energy_0, energy_p) ==
    IF energy_0 < energy_p THEN Some(n_ref) ELSE None

\* BaseGlobalTool.__init__: the ionization potential E(N0-1) - E(N0) and the
\* electron affinity E(N0) - E(N0+1) of the model
BaseGlobalPotentials(energy_m, energy_0, energy_p) ==
    [ip |-> energy_m - energy_0, ea |-> energy_0 - energy_p]

GlobalInit(d) ==
    LET c == CheckDictEnergy(d)
        base == BaseGlobalPotentials(c.energy_m, c.energy_0, c.energy_p)
    IN
    /\ kind = "none"
    /\ call' = [op |-> "LinearGlobalTool", dict |-> d]
    /\ alias' = "fresh"
    /\ UNCHANGED localVars
    /\ IF c.ok
       THEN /\ kind' = "global"
            /\ params' = GlobalParams(c.n_ref, c.energy_m, c.energy_0, c.energy_p)
            /\ n0' = c.n_ref
            /\ n_max' = GlobalNMax(c.n_ref, c.energy_0, c.energy_p)
            /\ ip' = base.ip
            /\ ea' = base.ea
            /\ dict_energy' = d
            /\ result' = Return(None, FALSE)
       ELSE /\ result' = Raise("ValueError", FALSE)
            /\ UNCHANGED <<kind, n0, globalVars>>

\* MuMinus without the change of sign
MuMinusNoSign == ip

\* LinearGlobalTool.mu_minus, mu_plus and mu_zero
MuMinus == Mul(Num(-1), ip)
MuPlus == Mul(Num(-1), ea)
MuZero == Mul(Half(-1), ea + ip)

\* EnergyValue with the slope of the lower segment used above N0
EnergyValueLowerSlope(n_elec) ==
    IF n_elec <= n0
    THEN params[1] + Mul(n_elec, params[2])
    ELSE params[3] + Mul(n_elec, params[2])

\* LinearGlobalTool.energy(n_elec)
EnergyValue(n_elec) ==
    IF n_elec <= n0
    THEN params[1] + Mul(n_elec, params[2])
    ELSE params[3] + Mul(n_elec, params[4])

\* Energy without the check of a negative n_elec
EnergyUnchecked(n_elec) ==
    IF n_elec = None THEN Return(None, FALSE)
    ELSE Return(Some(EnergyValue(n_elec[1])),
                OutOfRange(n0 - Num(1), n_elec, n0 + Num(1)))

Energy(n_elec) ==
    IF n_elec = None THEN Return(None, FALSE)
    ELSE IF n_elec[1] < 0 THEN Raise("ValueError", FALSE)
    ELSE Return(Some(EnergyValue(n_elec[1])),
                OutOfRange(n0 - Num(1), n_elec, n0 + Num(1)))

\* DerivValue with the order tested before n_elec == N0
DerivValueOrderFirst(n_elec, order) ==
    IF order >= Num(2) THEN Some(0)
    ELSE IF n_elec = n0 THEN None
    ELSE IF n_elec < n0 THEN Some(params[2])
    ELSE Some(params[4])

\* LinearGlobalTool.energy_derivative(n_elec, order)
DerivValue(n_elec, order) ==
    IF n_elec = n0 THEN None
    ELSE IF order >= Num(2) THEN Some(0)
    ELSE IF n_elec < n0 THEN Some(params[2])
    ELSE Some(params[4])

ValidOrder(order) == IsInt(order) /\ order > 0

EnergyDerivative(n_elec, order) ==
    IF n_elec = None THEN Return(None, FALSE)
    ELSE IF n_elec[1] < 0 THEN Raise("ValueError", FALSE)
    ELSE LET w == OutOfRange(n0 - Num(1), n_elec, n0 + Num(1)) IN
         IF ~ValidOrder(order) THEN Raise("ValueError", w)
         ELSE Return(DerivValue(n_elec[1], order), w)

CallEnergy(n_elec) ==
    /\ kind = "global"
    /\ call' = [op |-> "energy", n_elec |-> n_elec]
    /\ result' = Energy(n_elec)
    /\ alias' = "fresh"
    /\ UNCHANGED <<kind, n0, globalVars, localVars>>

CallEnergyDerivative(n_elec, order) ==
    /\ kind = "global"
    /\ call' = [op |-> "energy_derivative", n_elec |-> n_elec, order |-> order]
    /\ result' = EnergyDerivative(n_elec, order)
    /\ alias' = "fresh"
    /\ UNCHANGED <<kind, n0, globalVars, localVars>>

----------------------------------------------------------------------------
(* Fields: numpy arithmetic, element-wise; each operator makes a new array *)

FieldSub(f, g) == [r \in Grid |-> f[r] - g[r]]
FieldAdd(f, g) == [r \in Grid |-> f[r] + g[r]]
FieldScale(f, x) == [r \in Grid |-> Mul(f[r], x)]

\* the properties mu_minus, mu_plus and mu_zero
CallPotential(name) ==
    /\ kind = "global"
    /\ call' = [op |-> name]
    /\ result' = Return(Some(CASE name = "mu_minus" -> MuMinus
                               [] name = "mu_plus" -> MuPlus
                               [] name = "mu_zero" -> MuZero), FALSE)
    /\ alias' = "fresh"
    /\ UNCHANGED <<kind, n0, globalVars, localVars>>

\* the property params: the list self._params itself
CallParams ==
    /\ kind = "global"
    /\ call' = [op |-> "params"]
    /\ result' = Return(params, FALSE)
    /\ alias' = "params"
    /\ UNCHANGED <<kind, n0, globalVars, localVars>>

\* The caller writes v to every element of the list the property params
\* returned (p[:] = [v] * 4).  The list is self._params.
CallerFillParams(v) ==
    LET filled == <<v, v, v, v>> IN
    /\ kind = "global"
    /\ alias = "params"
    /\ call.op \in {"params", "fill"}
    /\ result.outcome = "return"
    /\ call' = [op |-> "fill", of |-> "params", value |-> v]
    /\ result' = Return(filled, FALSE)
    /\ params' = filled
    /\ UNCHANGED <<kind, n0, dict_energy, n_max, ip, ea, localVars, alias>>

----------------------------------------------------------------------------
(* LinearLocalTool *)

\* BaseLocalTool.__init__(dict_density, n0): the densities of N0 - 1, N0 and
\* N0 + 1 electrons, the values of the mapping in the order of its keys
BaseLocalDensities(d, n_ref) ==
    [m |-> SortedValues(d)[1], z |-> SortedValues(d)[2], p |-> SortedValues(d)[3]]

\* LocalCheck with the keys compared by their span alone
LocalCheckSpan(d) ==
    LET keys == SortedKeys(d) IN
    IF Cardinality(DOMAIN d) # 3 \/ ~(\A key \in DOMAIN d : key >= 0)
    THEN "requires 3 density values"
    ELSE IF keys[2] < Num(1)
    THEN "n0 cannot be less than one"
    ELSE IF keys[3] - keys[1] # Num(2)
    THEN "should differ by one"
    ELSE "ok"

\* the checks of LinearLocalTool.__init__: "ok", or the check that raises
LocalCheck(d) ==
    LET keys == SortedKeys(d) IN
    IF Cardinality(DOMAIN d) # 3 \/ ~(\A key \in DOMAIN d : key >= 0)
    THEN "requires 3 density values"
    ELSE IF keys[2] < Num(1)
    THEN "n0 cannot be less than one"
    ELSE IF keys # <<keys[2] - Num(1), keys[2], keys[2] + Num(1)>>
    THEN "should differ by one"
    ELSE "ok"

LocalInit(d) ==
    /\ kind = "none"
    /\ call' = [op |-> "LinearLocalTool", dict |-> d]
    /\ alias' = "fresh"
    /\ UNCHANGED globalVars
    /\ IF LocalCheck(d) = "ok"
       THEN LET n_ref == SortedKeys(d)[2]
                rho == BaseLocalDensities(d, n_ref)
            IN  /\ kind' = "local"
                /\ n0' = n_ref
                /\ dict_density' = d
                /\ dens_m' = rho.m
                /\ dens_0' = rho.z
                /\ dens_p' = rho.p
                /\ ff_plus' = FieldSub(rho.p, rho.z)
                /\ ff_minus' = FieldSub(rho.z, rho.m)
                /\ ff_zero' = FieldScale(FieldSub(rho.p, rho.m), Half(1))
                /\ result' = Return(None, FALSE)
       ELSE /\ result' = Raise("ValueError", FALSE)
            /\ UNCHANGED <<kind, n0, localVars>>

\* DensityValue with the Fukui function from above used below N0
DensityValueUpperSlope(n_elec) ==
    IF n_elec # None /\ n_elec # Some(n0)
    THEN FieldAdd(dens_0, FieldScale(ff_plus, n_elec[1] - n0))
    ELSE dens_0

\* LinearLocalTool.density(n_elec): the array returned
DensityValue(n_elec) ==
    IF n_elec # None /\ n_elec # Some(n0)
    THEN IF n_elec[1] < n0
         THEN FieldAdd(dens_0, FieldScale(ff_minus, n_elec[1] - n0))
         ELSE FieldAdd(dens_0, FieldScale(ff_plus, n_elec[1] - n0))
    ELSE dens_0

Density(n_elec) ==
    IF n_elec # None /\ n_elec[1] < 0 THEN Raise("ValueError", FALSE)
    ELSE Return(DensityValue(n_elec), OutOfRange(n0 - Num(1), n_elec, n0 + Num(1)))

\* DensityObject without the copy: rho = self.density_zero
DensityObjectNoCopy(n_elec) == "dens_0"

\* the object density returns: rho = self.density_zero.copy(), updated in place
DensityObject(n_elec) == "fresh"

\* FukuiObject with the fields of the two sides exchanged
FukuiObjectSwapped(n_elec) ==
    IF n_elec = None \/ n_elec = Some(n0) THEN "ff_zero"
    ELSE IF n_elec[1] < n0 THEN "ff_plus"
    ELSE "ff_minus"

\* LinearLocalTool.fukui_function(n_elec): the stored field selected
FukuiObject(n_elec) ==
    IF n_elec = None \/ n_elec = Some(n0) THEN "ff_zero"
    ELSE IF n_elec[1] < n0 THEN "ff_minus"
    ELSE "ff_plus"

\* the array a stored field holds
Stored(name) ==
    CASE name = "ff_zero" -> ff_zero
      [] name = "ff_minus" -> ff_minus
      [] name = "ff_plus" -> ff_plus
      [] name = "dens_0" -> dens_0

FukuiFunction(n_elec) ==
    IF n_elec # None /\ n_elec[1] < 0 THEN Raise("ValueError", FALSE)
    ELSE Return(Stored(FukuiObject(n_elec)),
                OutOfRange(n0 - Num(1), n_elec, n0 + Num(1)))

\* LinearLocalTool.softness(global_softness, n_elec)
SoftnessValue(global_softness, n_elec) ==
    IF n_elec = None \/ n_elec = Some(n0) THEN FieldScale(ff_zero, global_softness)
    ELSE IF n_elec[1] < n0 THEN FieldScale(ff_minus, global_softness)
    ELSE FieldScale(ff_plus, global_softness)

Softness(global_softness, n_elec) ==
    IF n_elec # None /\ n_elec[1] < 0 THEN Raise("ValueError", FALSE)
    ELSE Return(SoftnessValue(global_softness, n_elec),
                OutOfRange(n0 - Num(1), n_elec, n0 + Num(1)))

\* the object a returning call hands to the caller
Handed(res, object) == IF res.outcome = "return" THEN object ELSE "fresh"

CallDensity(n_elec) ==
    /\ kind = "local"
    /\ call' = [op |-> "density", n_elec |-> n_elec]
    /\ result' = Density(n_elec)
    /\ alias' = Handed(Density(n_elec), DensityObject(n_elec))
    /\ UNCHANGED <<kind, n0, globalVars, localVars>>

CallFukuiFunction(n_elec) ==
    /\ kind = "local"
    /\ call' = [op |-> "fukui_function", n_elec |-> n_elec]
    /\ result' = FukuiFunction(n_elec)
    /\ alias' = Handed(FukuiFunction(n_elec), FukuiObject(n_elec))
    /\ UNCHANGED <<kind, n0, globalVars, localVars>>

CallSoftness(global_softness, n_elec) ==
    /\ kind = "local"
    /\ call' = [op |-> "softness", n_elec |-> n_elec, global_softness |-> global_softness]
    /\ result' = Softness(global_softness, n_elec)
    /\ alias' = "fresh"
    /\ UNCHANGED <<kind, n0, globalVars, localVars>>

\* the properties ff_plus, ff_minus and ff_zero
CallProperty(name) ==
    /\ kind = "local"
    /\ call' = [op |-> name]
    /\ result' = Return(Stored(name), FALSE)
    /\ alias' = name
    /\ UNCHANGED <<kind, n0, globalVars, localVars>>

\* The caller writes v to every point of the field the last call returned
\* (field[:] = v).  The write goes to the object returned: a stored field of
\* the model when the call returned that field itself.
FieldOps == {"density", "fukui_function", "softness", "ff_plus", "ff_minus", "ff_zero", "fill"}

CallerFill(v) ==
    LET filled == [r \in Grid |-> v] IN
    /\ kind = "local"
    /\ call.op \in FieldOps
    /\ result.outcome = "return"
    /\ call' = [op |-> "fill", of |-> IF call.op = "fill" THEN call.of ELSE call.op,
                 value |-> v]
    /\ result' = Return(filled, FALSE)
    /\ dens_0' = IF alias = "dens_0" THEN filled ELSE dens_0
    /\ ff_zero' = IF alias = "ff_zero" THEN filled ELSE ff_zero
    /\ ff_minus' = IF alias = "ff_minus" THEN filled ELSE ff_minus
    /\ ff_plus' = IF alias = "ff_plus" THEN filled ELSE ff_plus
    /\ UNCHANGED <<kind, n0, globalVars, dict_density, dens_m, dens_p, alias>>

----------------------------------------------------------------------------

Init ==
    /\ kind = "none"
    /\ dict_energy = None
    /\ n0 = None
    /\ n_max = None
    /\ params = None
    /\ ip = None
    /\ ea = None
    /\ dict_density = None
    /\ dens_m = None
    /\ dens_0 = None
    /\ dens_p = None
    /\ ff_plus = None
    /\ ff_minus = None
    /\ ff_zero = None
    /\ call = [op |-> "start"]
    /\ result = Return(None, FALSE)
    /\ alias = "fresh"

ConstructGlobal == \E d \in EnergyDicts : GlobalInit(d)
QueryEnergy == \E n \in ElecArgs : CallEnergy(n)
QueryEnergyDerivative == \E n \in ElecArgs, o \in OrderArgs : CallEnergyDerivative(n, o)
ReadPotential == \E name \in {"mu_minus", "mu_plus", "mu_zero"} : CallPotential(name)
ReadParams == CallParams

ConstructLocal == \E d \in DensityDicts : LocalInit(d)
QueryDensity == \E n \in ElecArgs : CallDensity(n)
QueryFukuiFunction == \E n \in ElecArgs : CallFukuiFunction(n)
QuerySoftness == \E s \in SoftnessArgs, n \in ElecArgs : CallSoftness(s, n)
ReadProperty == \E name \in {"ff_plus", "ff_minus", "ff_zero"} : CallProperty(name)
MutateReturned == CallerFill(FillValue)
MutateParams == CallerFillParams(FillValue)

\* the operations of the two classes
Query ==
    \/ ConstructGlobal
    \/ QueryEnergy
    \/ QueryEnergyDerivative
    \/ ReadPotential
    \/ ReadParams
    \/ ConstructLocal
    \/ QueryDensity
    \/ QueryFukuiFunction
    \/ QuerySoftness
    \/ ReadProperty

\* the operations, and a caller that writes to the fields and the list it is
\* handed
Next ==
    \/ Query
    \/ MutateReturned
    \/ MutateParams

Spec == Init /\ [][Next]_vars

\* callers that only read what they are handed
SpecQuery == Init /\ [][Query]_vars

----------------------------------------------------------------------------
(* The input triple of the instance, read from the mapping it was given *)

\* N0, the middle key of the mapping
RefKey(d) == SortedKeys(d)[2]

QueryOps == {"energy", "energy_derivative", "density", "fukui_function", "softness"}

\* the last call was the query op with a number as n_elec
NumericCall(op) == call.op = op /\ call.n_elec # None

----------------------------------------------------------------------------
(* C1: for every valid energy triple {N0-1: Em, N0: E0, N0+1: Ep} and every *)
(* N >= 0, energy(N) returns a + b*N when N <= N0 and a' + b'*N when        *)
(* N > N0, with b = E0 - Em, a = E0 - N0*b, b' = Ep - E0, a' = E0 - N0*b';  *)
(* so energy(N0-1) = Em, energy(N0) = E0 from either segment, and           *)
(* energy(N0+1) = Ep.                                                       *)
C1_EnergyPiecewiseLinear ==
    (kind = "global" /\ NumericCall("energy") /\ call.n_elec[1] >= 0) =>
        LET N == call.n_elec[1]
            N0 == RefKey(dict_energy)
            Em == dict_energy[N0 - Num(1)]
            E0 == dict_energy[N0]
            Ep == dict_energy[N0 + Num(1)]
            b == E0 - Em
            a == E0 - Mul(N0, b)
            bp == Ep - E0
            ap == E0 - Mul(N0, bp)
        IN  /\ result.outcome = "return"
            /\ N <= N0 => result.value = Some(a + Mul(b, N))
            /\ N > N0 => result.value = Some(ap + Mul(bp, N))
            /\ N = N0 - Num(1) => result.value = Some(Em)
            /\ N = N0 => result.value = Some(E0) /\ ap + Mul(bp, N) = E0
            /\ N = N0 + Num(1) => result.value = Some(Ep)

\* energy(N0 + 1) has returned E(N0 + 1) on a triple whose two slopes differ
C1_Witness ==
    /\ kind = "global"
    /\ NumericCall("energy")
    /\ call.n_elec[1] = n0 + Num(1)
    /\ params[2] # params[4]
    /\ params[4] # 0
    /\ result = Return(Some(dict_energy[n0 + Num(1)]), FALSE)

(* C2: for every valid triple, every N >= 0 and every positive integer      *)
(* order, energy_derivative(N, order) returns None when N == N0 whatever    *)
(* the order, 0 when N != N0 and order >= 2, and for order == 1 the slope   *)
(* E0 - E(N0-1) when N < N0 and E(N0+1) - E0 when N > N0.                   *)
C2_EnergyDerivative ==
    (/\ kind = "global"
     /\ NumericCall("energy_derivative")
     /\ call.n_elec[1] >= 0
     /\ IsInt(call.order) /\ call.order >= Num(1)) =>
        LET N == call.n_elec[1]
            N0 == RefKey(dict_energy)
            Em == dict_energy[N0 - Num(1)]
            E0 == dict_energy[N0]
            Ep == dict_energy[N0 + Num(1)]
        IN  /\ result.outcome = "return"
            /\ N = N0 => result.value = None
            /\ (N # N0 /\ call.order >= Num(2)) => result.value = Some(0)
            /\ (N < N0 /\ call.order = Num(1)) => result.value = Some(E0 - Em)
            /\ (N > N0 /\ call.order = Num(1)) => result.value = Some(Ep - E0)

\* energy_derivative(N0, 2) has returned None
C2_Witness ==
    /\ kind = "global"
    /\ NumericCall("energy_derivative")
    /\ call.n_elec[1] = n0
    /\ n0 >= 0
    /\ call.order = Num(2)
    /\ result = Return(None, FALSE)

(* C3: energy_derivative(N, order) raises ValueError whenever order is not  *)
(* a positive integer, for every N it accepts: any N >= 0 and None.         *)
C3_BadOrderAlwaysRaises ==
    (/\ kind = "global"
     /\ call.op = "energy_derivative"
     /\ ~(IsInt(call.order) /\ call.order >= Num(1))
     /\ (call.n_elec = None \/ call.n_elec[1] >= 0)) =>
        result.outcome = "raise"

\* the stored state of the instance
Stored9 == <<kind, n0, n_max, params, dens_m, dens_0, dens_p, ff_minus, ff_plus, ff_zero>>

\* the electron counts probed after a failed call: omitted, and one in each
\* piece of the model
ProbeArgs == {None, Some(n0 - Num(1)), Some(n0), Some(n0 + Num(1))}

\* what the queries return in the current state, at the counts probed
AllQueries ==
    IF kind = "global"
    THEN <<[n \in ProbeArgs |-> Energy(n)],
           [n \in ProbeArgs |-> EnergyDerivative(n, Num(1))]>>
    ELSE IF kind = "local"
    THEN <<[n \in ProbeArgs |-> Density(n)],
           [n \in ProbeArgs |-> FukuiFunction(n)],
           [n \in ProbeArgs |-> Softness(Num(2), n)]>>
    ELSE <<>>

(* C4: every query (energy, energy_derivative, density, fukui_function,     *)
(* softness) called with N < 0 raises ValueError, returns nothing, and      *)
(* leaves the stored state as it was, so every query returns afterwards     *)
(* what it returned before.                                                 *)
C4_NegativeRaisesAndKeepsState ==
    [][(call'.op \in QueryOps /\ call'.n_elec # None /\ call'.n_elec[1] < 0) =>
            /\ result'.outcome = "raise"
            /\ result'.value = "ValueError"
            /\ Stored9' = Stored9
            /\ AllQueries' = AllQueries]_vars

\* fukui_function(-1) has raised
C4_Witness ==
    /\ kind = "local"
    /\ call = [op |-> "fukui_function", n_elec |-> Some(Num(-1))]
    /\ result.outcome = "raise"

(* C5: the out-of-range advisory is emitted exactly when the electron count *)
(* a query evaluates at lies outside [N0-1, N0+1], an omitted N counting as *)
(* N0: density(), fukui_function() and softness(S) without N emit none, a   *)
(* call with N outside the interval emits one and still returns the linear  *)
(* value, e.g. energy(7.5) on {4: -14.0, 5: -15.0, 6: -15.5} returns        *)
(* a' + b'*7.5 = -16.25.                                                    *)
C5_AdvisoryExactlyOutsideRange ==
    (kind # "none" /\ call.op \in QueryOps /\ result.outcome = "return") =>
        LET N == IF call.n_elec = None THEN n0 ELSE call.n_elec[1] IN
        /\ result.warned <=> (N < n0 - Num(1) \/ N > n0 + Num(1))
        /\ (kind = "global" /\ dict_energy = Scenario1
                /\ call = [op |-> "energy", n_elec |-> Some(Half(15))]) =>
               result.value = Some(-65)

(* C6: density(N) returns a freshly allocated field, never a stored one:    *)
(* whatever density calls and in-place writes of the caller to the returned *)
(* fields have happened, density_zero equals the rho_0 given at             *)
(* construction and density(N0) returns a field equal to rho_0.             *)
C6_DensityReturnsFreshField ==
    kind = "local" =>
        LET rho_0 == dict_density[RefKey(dict_density)] IN
        /\ dens_0 = rho_0
        /\ Density(Some(n0)).outcome = "return"
        /\ Density(Some(n0)).value = rho_0
        /\ Density(None).value = rho_0
        /\ (call.op = "density" /\ result.outcome = "return") => alias = "fresh"

\* the caller has overwritten a field density returned, and density_zero
\* differs from what the caller now holds
C6_Witness ==
    /\ kind = "local"
    /\ call.op = "fill"
    /\ call.of = "density"
    /\ result.value # dens_0
    /\ dens_0 = dict_density[n0]

(* C7: fukui_function(N) returns a fresh copy, not the stored field: when   *)
(* the caller writes in place to a field fukui_function returned, ff_minus, *)
(* ff_plus and ff_zero stay as they were and fukui_function and softness    *)
(* return afterwards what they returned before the write.                   *)
C7_FukuiReturnsFreshCopy ==
    [][(call'.op = "fill" /\ call'.of = "fukui_function") =>
            /\ <<ff_minus, ff_plus, ff_zero>>' = <<ff_minus, ff_plus, ff_zero>>
            /\ AllQueries' = AllQueries]_vars

\* the densities given at construction, and the Fukui functions they define
Rho == [m |-> dict_density[RefKey(dict_density) - Num(1)],
        z |-> dict_density[RefKey(dict_density)],
        p |-> dict_density[RefKey(dict_density) + Num(1)]]
FMinus == [r \in Grid |-> Rho.z[r] - Rho.m[r]]
FPlus == [r \in Grid |-> Rho.p[r] - Rho.z[r]]
FZero == [r \in Grid |-> Mul(Half(1), FPlus[r] + FMinus[r])]

\* the Fukui function the claims give for an electron count
FukuiOf(n_elec) ==
    IF n_elec = None \/ n_elec[1] = RefKey(dict_density) THEN FZero
    ELSE IF n_elec[1] < RefKey(dict_density) THEN FMinus
    ELSE FPlus

\* the last call was the query op with n_elec omitted or >= 0
AcceptedCall(op) == call.op = op /\ (call.n_elec = None \/ call.n_elec[1] >= 0)

(* C8: for every valid density triple {N0-1: rho_m, N0: rho_0, N0+1: rho_p} *)
(* and every N >= 0, density(N) is rho_0 + (rho_0 - rho_m)*(N - N0) at each *)
(* point when N < N0, rho_0 + (rho_p - rho_0)*(N - N0) when N > N0, and     *)
(* rho_0 when N == N0 or N is omitted; so density(N0-1) = rho_m and         *)
(* density(N0+1) = rho_p.                                                   *)
C8_DensityPiecewiseLinear ==
    (kind = "local" /\ AcceptedCall("density")) =>
        LET N0 == RefKey(dict_density)
            n == call.n_elec
        IN  /\ result.outcome = "return"
            /\ \A r \in Grid :
                 result.value[r] =
                    IF n = None \/ n[1] = N0 THEN Rho.z[r]
                    ELSE IF n[1] < N0
                    THEN Rho.z[r] + Mul(Rho.z[r] - Rho.m[r], n[1] - N0)
                    ELSE Rho.z[r] + Mul(Rho.p[r] - Rho.z[r], n[1] - N0)
            /\ n = Some(N0 - Num(1)) => result.value = Rho.m
            /\ n = Some(N0 + Num(1)) => result.value = Rho.p

\* density(N0 - 1) has returned rho_m, on a triple whose Fukui functions differ
C8_Witness ==
    /\ kind = "local"
    /\ call = [op |-> "density", n_elec |-> Some(n0 - Num(1))]
    /\ result.value = dens_m
    /\ dens_m # dens_0
    /\ FMinus # FPlus

(* C9: fukui_function(N) returns f- = rho_0 - rho_m when N < N0,            *)
(* f+ = rho_p - rho_0 when N > N0 and f0 when N == N0 or N is omitted,      *)
(* where f0 = (f+ + f-)/2 = (rho_p - rho_m)/2 at each point, so             *)
(* fukui_function() equals fukui_function(N0); and softness(S, N) is S      *)
(* times fukui_function(N) at each point, for every S and every such N.     *)
C9_FukuiAndSoftness ==
    kind = "local" =>
        /\ AcceptedCall("fukui_function") =>
              /\ result.outcome = "return"
              /\ result.value = FukuiOf(call.n_elec)
        /\ \A r \in Grid : FZero[r] = Mul(Half(1), Rho.p[r] - Rho.m[r])
        /\ FukuiFunction(None).value = FukuiFunction(Some(n0)).value
        /\ FukuiFunction(None).value = FZero
        /\ AcceptedCall("softness") =>
              /\ result.outcome = "return"
              /\ \A r \in Grid :
                    /\ result.value[r] =
                          Mul(call.global_softness, FukuiFunction(call.n_elec).value[r])
                    /\ result.value[r] =
                          Mul(call.global_softness, FukuiOf(call.n_elec)[r])

\* softness(2) without N has returned twice f0, f0 not zero and f- not f+
C9_Witness ==
    /\ kind = "local"
    /\ call = [op |-> "softness", n_elec |-> None, global_softness |-> Num(2)]
    /\ FMinus # FPlus
    /\ FZero # ZeroField
    /\ result.value = [r \in Grid |-> 2 * FZero[r]]

\* what C10 says of a construction, integer keys demanded or not
ConstructionAsClaimed(integers) ==
    call.op = "LinearLocalTool" =>
        LET d == call.dict
            K == DOMAIN d
            valid == /\ Cardinality(K) = 3
                     /\ \A k \in K : k >= 0
                     /\ \E N0 \in K :
                           /\ K = {N0 - Num(1), N0, N0 + Num(1)}
                           /\ N0 >= Num(1)
                           /\ integers => \A k \in K : IsInt(k)
        IN  /\ valid => (result.outcome = "return" /\ kind = "local"
                            /\ n0 = SortedKeys(d)[2])
            /\ ~valid => (result.outcome = "raise" /\ kind = "none")

(* C10: construction of LinearLocalTool from a mapping succeeds if and only *)
(* if the mapping has exactly 3 entries, every key is >= 0, the sorted keys *)
(* are consecutive integers [N0-1, N0, N0+1] and N0 >= 1; otherwise it      *)
(* raises and no instance is produced; on success n0 is the middle key.     *)
C10_ConstructsIffIntegerTriple == ConstructionAsClaimed(TRUE)

(* C10, amended: the same, the sorted keys being [N0-1, N0, N0+1], each one *)
(* more than the one before, whether they are integers or not.              *)
C10_ConstructsIffConsecutiveTriple == ConstructionAsClaimed(FALSE)

\* an instance has been constructed on the keys 1/2, 3/2, 5/2
C10_Witness ==
    /\ call.op = "LinearLocalTool"
    /\ kind = "local"
    /\ DOMAIN call.dict = {Half(1), Half(3), Half(5)}
    /\ n0 = Half(3)

(* C11: construction of LinearGlobalTool from a mapping raises unless the   *)
(* mapping has exactly 3 entries whose sorted keys are [k, k+1, k+2] for    *)
(* some k, so {1: 0.0, 3: 1.0} is rejected; when it succeeds, n0 is the     *)
(* middle sorted key, the three energies are taken in sorted-key order, and *)
(* n_max is N0 if E(N0) < E(N0+1) and None otherwise.                       *)
C11_GlobalConstruction ==
    call.op = "LinearGlobalTool" =>
        LET d == call.dict
            K == DOMAIN d
            keys == SortedKeys(d)
            valid == /\ Cardinality(K) = 3
                     /\ \E k \in K : K = {k, k + Num(1), k + Num(2)}
        IN  /\ ~valid => (result.outcome = "raise" /\ kind = "none")
            /\ d = Scenario2 => result.outcome = "raise"
            /\ result.outcome = "return" =>
                  /\ valid
                  /\ kind = "global"
                  /\ n0 = keys[2]
                  /\ dict_energy = d
                  /\ params[2] = d[keys[2]] - d[keys[1]]
                  /\ params[4] = d[keys[3]] - d[keys[2]]
                  /\ params[1] + Mul(keys[1], params[2]) = d[keys[1]]
                  /\ params[3] + Mul(keys[3], params[4]) = d[keys[3]]
                  /\ n_max = IF d[keys[2]] < d[keys[3]] THEN Some(keys[2]) ELSE None

\* an instance has been constructed whose energy rises from N0 to N0 + 1 and
\* falls from N0 - 1 to N0, with n_max = N0
C11_Witness ==
    /\ call.op = "LinearGlobalTool"
    /\ result.outcome = "return"
    /\ kind = "global"
    /\ dict_energy[n0] < dict_energy[n0 + Num(1)]
    /\ dict_energy[n0] < dict_energy[n0 - Num(1)]
    /\ n_max = Some(n0)

(* C12: mu_minus = E(N0) - E(N0-1), which is what energy_derivative(N)      *)
(* returns for every N < N0; mu_plus = E(N0+1) - E(N0), which is what       *)
(* energy_derivative(N) returns for every N > N0; and mu_zero equals        *)
(* (mu_plus + mu_minus)/2: on {4: -14.0, 5: -15.0, 6: -15.5} they are       *)
(* -1.0, -0.5 and -0.75.                                                    *)
C12_ChemicalPotentials ==
    kind = "global" =>
        LET N0 == RefKey(dict_energy)
            Em == dict_energy[N0 - Num(1)]
            E0 == dict_energy[N0]
            Ep == dict_energy[N0 + Num(1)]
        IN  /\ MuMinus = E0 - Em
            /\ MuPlus = Ep - E0
            /\ 2 * MuZero = MuPlus + MuMinus
            /\ \A N \in ElecValues :
                  /\ (0 <= N /\ N < N0) =>
                        EnergyDerivative(Some(N), Num(1)).value = Some(MuMinus)
                  /\ N > N0 =>
                        EnergyDerivative(Some(N), Num(1)).value = Some(MuPlus)
            /\ call.op = "mu_minus" => result = Return(Some(E0 - Em), FALSE)
            /\ call.op = "mu_plus" => result = Return(Some(Ep - E0), FALSE)
            /\ call.op = "mu_zero" =>
                  2 * result.value[1] = (Ep - E0) + (E0 - Em)
            /\ (NumericCall("energy_derivative") /\ call.order = Num(1)) =>
                  /\ (0 <= call.n_elec[1] /\ call.n_elec[1] < N0) =>
                        result.value = Some(MuMinus)
                  /\ call.n_elec[1] > N0 => result.value = Some(MuPlus)
            /\ dict_energy = Scenario1 =>
                  /\ MuMinus = Num(-1)
                  /\ MuPlus = Half(-1)
                  /\ 4 * MuZero = Num(-3)

\* mu_zero has been read on {4: -14.0, 5: -15.0, 6: -15.5} and is -0.75,
\* between mu_minus = -1.0 and mu_plus = -0.5
C12_Witness ==
    /\ kind = "global"
    /\ dict_energy = Scenario1
    /\ call.op = "mu_zero"
    /\ 4 * result.value[1] = Num(-3)
    /\ MuMinus = Num(-1)
    /\ MuPlus = Half(-1)

(* C13: the parameters (a, b, a', b') of the global model are immutable     *)
(* after construction: after any sequence of reads of the parameters        *)
(* attribute, writes of the caller to the value the attribute returned, and *)
(* energy / energy_derivative calls, the parameters the model uses equal    *)
(* the values computed at construction, so energy(N) and                    *)
(* energy_derivative(N) return what they returned right after construction. *)
C13_ParamsImmutable ==
    kind = "global" =>
        LET N0 == RefKey(dict_energy)
            Em == dict_energy[N0 - Num(1)]
            E0 == dict_energy[N0]
            Ep == dict_energy[N0 + Num(1)]
            b == E0 - Em
            a == E0 - Mul(N0, b)
            bp == Ep - E0
            ap == E0 - Mul(N0, bp)
        IN  /\ params = <<a, b, ap, bp>>
            /\ \A N \in ElecValues :
                  N >= 0 =>
                     /\ Energy(Some(N)).value =
                           Some(IF N <= N0 THEN a + Mul(N, b) ELSE ap + Mul(N, bp))
                     /\ EnergyDerivative(Some(N), Num(1)).value =
                           IF N = N0 THEN None
                           ELSE IF N < N0 THEN Some(b) ELSE Some(bp)

====
